---- MODULE Spec2Model ----
(***************************************************************************)
(* Decision-tree induction (ID3 / information gain) and reduced-error      *)
(* pruning, as implemented in src/3/decision_tree.py.                      *)
(*                                                                         *)
(* A dataset is a sequence of rows; a row is a sequence of integers whose  *)
(* first element is the class (column 0 of the numpy array) and whose      *)
(* remaining elements are the attribute values (columns 1..k).  Column     *)
(* index c of the code is position c + 1 of a row here.                    *)
(*                                                                         *)
(* Node objects live in a heap (a sequence of records); a node's identity  *)
(* is its position in the heap, in order of creation.  A children dict is  *)
(* a sequence of [k, n] entries in insertion order (key, node id).         *)
(*                                                                         *)
(* Real-valued quantities are modelled exactly, not in floating point:     *)
(* entropies and gains are numbers of the form log2(n / m) / d with        *)
(* integers n, m, d, error rates and accuracies are fractions.  The code   *)
(* computes them in float64, where two mathematically equal gains or rates *)
(* can differ in the last bit; for training sets of up to MaxRows = 4 rows *)
(* over the domains below every comparison comes out the same either way.  *)
(*                                                                         *)
(* No computation of the code depends on the order of the rows of the      *)
(* training set (bincount counts, np.unique sorts, np.where keeps the      *)
(* order), so the enumerated training sets list their rows in ascending    *)
(* order.                                                                  *)
(***************************************************************************)
EXTENDS Integers, Sequences, FiniteSets, TLC

\* Largest number of rows of an enumerated training set.
MaxRows == 4

\* Class labels, attribute values and numbers of attribute columns of the
\* enumerated training sets; attribute values of the examples to predict.
Classes == 0..2
Values == 0..1
Widths == 0..2
ExampleValues == 0..2

\* Python's None, for Node.parent and Node.attr_idx (node ids and attribute
\* column indices start at 1).
None == 0

(***************************************************************************)
(* The two concrete scenarios of the specification's test list, with the   *)
(* class labels A, B encoded as integers a, b and x1, x2, y1, y2 as 0, 1.  *)
(***************************************************************************)
ScenarioSplit(a, b) == << <<a, 0, 0>>, <<a, 0, 1>>, <<b, 1, 0>> >>

ScenarioBoundary(a, b) ==
    [i \in 1..10 |-> IF i <= 5 THEN <<a, 0>>
                     ELSE IF i <= 8 THEN <<a, 1>> ELSE <<b, 1>>]

Scenarios ==
    {ScenarioBoundary(0, 1), ScenarioBoundary(1, 0)}
        \cup {ScenarioSplit(a, b) : a, b \in {c \in Classes : c # 2}}

RowsOfWidth(k) ==
    {<<c>> \o t : c \in Classes, t \in [1..k -> Values]}

\* Lexicographic order on rows of one width.
RowLE(r, s) ==
    \/ r = s
    \/ \E j \in DOMAIN r : r[j] < s[j] /\ \A l \in 1..(j - 1) : r[l] = s[l]

\* The training sets of m rows drawn from S, rows in ascending order: one
\* representative of each training set up to the order of its rows.
RECURSIVE SortedData(_, _)
SortedData(S, m) ==
    IF m = 0 THEN {<<>>}
    ELSE UNION {{<<r>> \o t : t \in SortedData({s \in S : RowLE(r, s)}, m - 1)}
                  : r \in S}

Datasets ==
    UNION {SortedData(RowsOfWidth(k), m) : k \in Widths, m \in 0..MaxRows}
        \cup Scenarios

Examples(k) == {<<0>> \o t : t \in [1..k -> ExampleValues]}

(***************************************************************************)
(* Sequence and set helpers.                                               *)
(***************************************************************************)
Range(s) == {s[i] : i \in DOMAIN s}

Max(S) == CHOOSE x \in S : \A y \in S : y <= x

Min(S) == CHOOSE x \in S : \A y \in S : x <= y

RECURSIVE SumSeq(_)
SumSeq(s) == IF s = <<>> THEN 0 ELSE Head(s) + SumSeq(Tail(s))

RECURSIVE SortedSeq(_)
SortedSeq(S) ==
    IF S = {} THEN <<>> ELSE <<Min(S)>> \o SortedSeq(S \ {Min(S)})

\* np.where(s == v)[0]: the indices, ascending, where s holds v.
Where(s, v) == SortedSeq({i \in DOMAIN s : s[i] = v})

\* data[:, c]
Column(data, c) == [i \in DOMAIN data |-> data[i][c + 1]]

\* data[p] for an index array p
Take(data, p) == [j \in DOMAIN p |-> data[p[j]]]

\* Number of attribute columns, data[:, 1:].shape[1]
NumAttrs(data) == IF data = <<>> THEN 0 ELSE Len(data[1]) - 1

\* np.bincount(Y): position c + 1 holds the number of occurrences of c,
\* for c in 0..max(Y); empty for an empty Y.
Bincount(Y) ==
    IF Y = <<>> THEN <<>>
    ELSE [c1 \in 1..(Max(Range(Y)) + 1) |->
            Cardinality({i \in DOMAIN Y : Y[i] = c1 - 1})]

\* Mutant of Argmax: argmin.
ArgMin(a) ==
    Min({i \in DOMAIN a : a[i] = Min(Range(a))}) - 1

\* ndarray.argmax(): the first index holding the maximum (as a class label).
Argmax(a) ==
    Min({i \in DOMAIN a : a[i] = Max(Range(a))}) - 1

(***************************************************************************)
(* Exact arithmetic on reals of the form log2(n / m) / d, held as records  *)
(* [n, m, d] with n, m, d positive integers and n / m in lowest terms.     *)
(***************************************************************************)
RECURSIVE Gcd(_, _)
Gcd(a, b) == IF b = 0 THEN a ELSE Gcd(b, a % b)

RECURSIVE Pow(_, _)
Pow(b, e) == IF e = 0 THEN 1 ELSE b * Pow(b, e - 1)

Real(n, m, d) == [n |-> n, m |-> m, d |-> d]

\* log2((a / b) * (c / e)) / d, for a / b and c / e in lowest terms
Product(a, b, c, e, d) ==
    LET g1 == Gcd(a, e)
        g2 == Gcd(c, b)
    IN  Real((a \div g1) * (c \div g2), (b \div g2) * (e \div g1), d)

Zero == Real(1, 1, 1)

\* -1 = log2(1 / 2)
MinusOne == Real(1, 2, 1)

Add(r, s) ==
    LET g == Gcd(r.d, s.d)
        kr == s.d \div g
        ks == r.d \div g
    IN  Product(Pow(r.n, kr), Pow(r.m, kr), Pow(s.n, ks), Pow(s.m, ks),
                r.d * kr)

Neg(r) == Real(r.m, r.n, r.d)

Sub(r, s) == Add(r, Neg(s))

\* (a / b) * r, for integers a >= 0 and b > 0
Scale(a, b, r) ==
    IF a = 0 THEN Zero
    ELSE LET g == Gcd(a, r.d)
         IN  Real(Pow(r.n, a \div g), Pow(r.m, a \div g), b * (r.d \div g))

\* r > 0
Positive(r) == r.n > r.m

GT(r, s) == Positive(Sub(r, s))

\* np.log2(a / b), for integers a, b > 0
Log2(a, b) == Real(a \div Gcd(a, b), b \div Gcd(a, b), 1)

RECURSIVE SumReal(_)
SumReal(s) ==
    IF s = <<>> THEN Zero
    ELSE Add(SumReal(SubSeq(s, 1, Len(s) - 1)), s[Len(s)])

(***************************************************************************)
(* Node, entropy, partition.                                               *)
(***************************************************************************)
\* Node.__init__: the majority class is fixed at creation.
Node(parent, nsamples, attr_idx, children) ==
    [parent |-> parent, nsamples |-> nsamples, cls |-> Argmax(nsamples),
     attr_idx |-> attr_idx, children |-> children]

\* nsamples.argmax() raises ValueError on an empty array.
ArgmaxRaises(nsamples) == nsamples = <<>>

\* entropy(Y) = -1 * sum(p * log2(p) for p in bincount(Y) / len(Y) if p)
Entropy(Y) ==
    LET counts == SelectSeq(Bincount(Y), LAMBDA c : c # 0)
        terms == [i \in DOMAIN counts |->
                    Scale(counts[i], Len(Y), Log2(counts[i], Len(Y)))]
    IN  Neg(SumReal(terms))

\* Mutant of Partition: one entry per row instead of one per distinct value.
PartitionPerRow(Xa) ==
    [j \in DOMAIN Xa |-> [k |-> Xa[j], p |-> <<j>>]]

\* Mutant of Partition: the largest value of the column gets no entry.
PartitionDropLast(Xa) ==
    LET u == SortedSeq(Range(Xa))
    IN  [j \in 1..(Len(u) - 1) |->
            [k |-> u[j], p |-> Where(Xa, u[j])]]

\* partition(Xa): one entry per distinct value of the column, in ascending
\* order of the value (np.unique), with the indices where it occurs.
Partition(Xa) ==
    LET u == SortedSeq(Range(Xa))
    IN  [j \in DOMAIN u |->
            [k |-> u[j], p |-> Where(Xa, u[j])]]

(***************************************************************************)
(* _best_attribute                                                         *)
(***************************************************************************)
\* Information gain of splitting data on column index i + 1.
Gain(d, i) ==
    LET Y == Column(d, 0)
        Xa == Column(d, i + 1)
        parts == Partition(Xa)
        entropy_Y_Xa ==
            SumReal([j \in DOMAIN parts |->
                        Scale(Len(parts[j].p), Len(Xa),
                              Entropy(Take(Y, parts[j].p)))])
    IN  Sub(Entropy(Y), entropy_Y_Xa)

\* Mutant of Better: a tie replaces the current best.
BetterOrEqual(gain, best_gain) == ~GT(best_gain, gain)

\* Mutant of Better: the comparison is inverted.
Worse(gain, best_gain) == GT(best_gain, gain)

\* The test that lets an attribute replace the current best.
Better(gain, best_gain) == GT(gain, best_gain)

\* The column index stored for attribute position i.
AttrIndex(i) == i + 1

RECURSIVE BestAttributeLoop(_, _, _)
BestAttributeLoop(d, i, best) ==
    IF i >= NumAttrs(d) THEN best
    ELSE LET gain == Gain(d, i)
         IN  BestAttributeLoop(d, i + 1,
                IF Better(gain, best.gain)
                THEN [gain |-> gain, attr |-> AttrIndex(i)]
                ELSE best)

BestAttribute(d) ==
    BestAttributeLoop(d, 0, [gain |-> MinusOne, attr |-> -1])

(***************************************************************************)
(* _build_tree: returns the heap extended with the subtree built from d;   *)
(* the subtree's root is the node created first, at Len(h) + 1.            *)
(***************************************************************************)
\* The stopping test of line 74.
Pure(Y) == Cardinality(Range(Y)) <= 1

\* The test of line 82.
ShouldSplit(gain) == Positive(gain)

RECURSIVE BuildTree(_, _, _)
RECURSIVE BuildChildren(_, _, _, _, _)

\* Mutant of BuildTree: the test of line 82 does not look at the gain; the
\* node is split whenever the chosen attribute separates its rows.
BuildTreeWhateverGain(h, d, parent) ==
    LET Y == Column(d, 0)
        nsamples == Bincount(Y)
        this == Len(h) + 1
    IN  IF Pure(Y) THEN Append(h, Node(parent, nsamples, None, <<>>))
        ELSE LET best == BestAttribute(d)
             IN  IF /\ best.attr # -1
                    /\ Cardinality(Range(Column(d, best.attr))) > 1
                 THEN LET h1 == Append(h, Node(parent, nsamples, best.attr, <<>>))
                          built == BuildChildren(h1, d,
                                      Partition(Column(d, best.attr)), this, 1)
                      IN  [built.heap EXCEPT ![this].children = built.children]
                 ELSE Append(h, Node(parent, nsamples, None, <<>>))

\* The dict comprehension of lines 86-89: children are built one after the
\* other, in the order of the partition's entries.
BuildChildren(h, d, parts, this, j) ==
    IF j > Len(parts) THEN [heap |-> h, children |-> <<>>]
    ELSE LET child == Len(h) + 1
             h1 == BuildTree(h, Take(d, parts[j].p), this)
             rest == BuildChildren(h1, d, parts, this, j + 1)
         IN  [heap |-> rest.heap,
              children |-> <<[k |-> parts[j].k, n |-> child]>> \o rest.children]

BuildTree(h, d, parent) ==
    LET Y == Column(d, 0)
        nsamples == Bincount(Y)
        this == Len(h) + 1
    IN  IF Pure(Y) THEN Append(h, Node(parent, nsamples, None, <<>>))
        ELSE LET best == BestAttribute(d)
             IN  IF ShouldSplit(best.gain)
                 THEN LET h1 == Append(h, Node(parent, nsamples, best.attr, <<>>))
                          built == BuildChildren(h1, d,
                                      Partition(Column(d, best.attr)), this, 1)
                      IN  [built.heap EXCEPT ![this].children = built.children]
                 ELSE Append(h, Node(parent, nsamples, None, <<>>))

(***************************************************************************)
(* _predict, score, height, node_count, nodes                              *)
(***************************************************************************)
\* dict.values(), in insertion order
ChildNodes(children) == [j \in DOMAIN children |-> children[j].n]

\* dict.get(key): the node stored under key, or None
Get(children, key) ==
    IF \E j \in DOMAIN children : children[j].k = key
    THEN children[CHOOSE j \in DOMAIN children : children[j].k = key].n
    ELSE None

\* Mutant of Fallback: the majority class of the first child.
FallbackFirstChild(h, n) == h[h[n].children[1].n].cls

\* The node _predict falls back on when no edge matches the example.
Fallback(h, n) == h[n].cls

RECURSIVE Predict(_, _, _)
Predict(h, n, x) ==
    IF h[n].children = <<>> THEN h[n].cls
    ELSE LET child == Get(h[n].children, x[h[n].attr_idx + 1])
         IN  IF child = None THEN Fallback(h, n) ELSE Predict(h, child, x)

\* accuracy(actual, predicted) = correct / len(actual), as a fraction
Frac(num, den) == [num |-> num, den |-> den]

Score(h, r, d) ==
    Frac(Cardinality({i \in DOMAIN d : d[i][1] = Predict(h, r, d[i])}),
         Len(d))

RECURSIVE Height(_, _)
Height(h, n) ==
    IF h[n].children = <<>> THEN 0
    ELSE 1 + Max({Height(h, c) : c \in Range(ChildNodes(h[n].children))})

RECURSIVE NodeCount(_, _)
NodeCount(h, n) ==
    IF h[n].children = <<>> THEN 1
    ELSE LET cs == ChildNodes(h[n].children)
         IN  1 + SumSeq([j \in DOMAIN cs |-> NodeCount(h, cs[j])])

\* Mutant of Enqueue: the children are put at the left of the queue.
EnqueueLeft(h, q) == ChildNodes(h[Head(q)].children) \o Tail(q)

\* The body of the loop of nodes(): the children of the node taken from the
\* left of the queue are put at its right.
Enqueue(h, q) == Tail(q) \o ChildNodes(h[Head(q)].children)

\* list(self.nodes()): q is the deque, out the nodes yielded so far.
RECURSIVE NodesFrom(_, _, _)
NodesFrom(h, q, out) ==
    IF q = <<>> THEN out
    ELSE NodesFrom(h, Enqueue(h, q), Append(out, Head(q)))

Nodes(h, r) == NodesFrom(h, <<r>>, <<>>)

Reverse(s) == [j \in DOMAIN s |-> s[Len(s) + 1 - j]]

(***************************************************************************)
(* prune                                                                   *)
(***************************************************************************)
FracAdd(a, b) == Frac(a.num * b.den + b.num * a.den, a.den * b.den)

FracGT(a, b) == a.num * b.den > b.num * a.den

RECURSIVE SumFrac(_)
SumFrac(s) ==
    IF s = <<>> THEN Frac(0, 1)
    ELSE FracAdd(SumFrac(SubSeq(s, 1, Len(s) - 1)), s[Len(s)])

\* The number of rows a node counts as misclassified (lines 216 and 219).
Misclassified(nsamples) == Min(Range(nsamples))

NodeErrRate(h, n) ==
    Frac(Misclassified(h[n].nsamples), SumSeq(h[n].nsamples))

\* Mutant of ChildrenErrRate: a child that is split at the time of the
\* visit counts what its own children misclassify.
RECURSIVE SubtreeMisclassified(_, _)
SubtreeMisclassified(h, c) ==
    IF h[c].children = <<>> THEN Misclassified(h[c].nsamples)
    ELSE LET cs == ChildNodes(h[c].children)
         IN  SumSeq([j \in DOMAIN cs |-> SubtreeMisclassified(h, cs[j])])

ChildrenErrRateOfSubtrees(h, n) ==
    LET cs == ChildNodes(h[n].children)
    IN  SumFrac([j \in DOMAIN cs |->
                    Frac(SubtreeMisclassified(h, cs[j]),
                         SumSeq(h[n].nsamples))])

ChildrenErrRate(h, n) ==
    LET cs == ChildNodes(h[n].children)
    IN  SumFrac([j \in DOMAIN cs |->
                    Frac(Misclassified(h[cs[j]].nsamples),
                         SumSeq(h[n].nsamples))])

\* The test of line 224.
ShouldPrune(h, n) == FracGT(ChildrenErrRate(h, n), NodeErrRate(h, n))

\* Mutant of Collapse: the subtree is replaced by a fresh leaf child.
CollapseToNewLeaf(h, n) ==
    Append([h EXCEPT ![n].children = <<[k |-> 0, n |-> Len(h) + 1]>>],
           [parent |-> n, nsamples |-> h[n].nsamples, cls |-> h[n].cls,
            attr_idx |-> None, children |-> <<>>])

\* Mutant of Collapse: the collapsed node counts only its majority class.
CollapseAndRecount(h, n) ==
    [h EXCEPT ![n].children = <<>>,
              ![n].nsamples = [c \in DOMAIN @ |->
                                  IF c = h[n].cls + 1 THEN @[c] ELSE 0]]

\* Line 228: the node becomes a leaf.
Collapse(h, n) == [h EXCEPT ![n].children = <<>>]

\* The body of the loop of prune() for one node.
Visit(h, n) ==
    IF h[n].children = <<>> THEN h
    ELSE IF ShouldPrune(h, n) THEN Collapse(h, n) ELSE h

NoRet == [op |-> "none"]

VARIABLES
    data,    \* the training set given to DecisionTree(data)
    heap,    \* the Node objects, in order of creation
    root,    \* self.root
    pc,      \* "idle", "returned" (a query has returned ret), "pruning"
             \* (inside prune()) or "raised" (the constructor raised)
    nodes,   \* prune(): the reversed list of nodes
    i,       \* prune(): position of the next node to visit in nodes
    pruned,  \* whether a call of prune() has returned
    ret      \* the last value returned by a query

vars == <<data, heap, root, pc, nodes, i, pruned, ret>>

\* Mutant of Construct: argmax of an empty array answers 0 instead of
\* raising, so a training set without rows gets a leaf as its root.
ConstructEmptyLeaf(d) ==
    IF ArgmaxRaises(Bincount(Column(d, 0)))
    THEN [heap |-> <<[parent |-> None, nsamples |-> <<>>, cls |-> 0,
                      attr_idx |-> None, children |-> <<>>]>>,
          root |-> 1, pc |-> "idle"]
    ELSE [heap |-> BuildTree(<<>>, d, None), root |-> 1, pc |-> "idle"]

\* DecisionTree(data): self.root = self._build_tree(data).  On a training
\* set without rows the first Node(parent, nsamples) raises out of the
\* constructor before anything is assigned; otherwise the root is the node
\* created first.
Construct(d) ==
    IF ArgmaxRaises(Bincount(Column(d, 0)))
    THEN [heap |-> <<>>, root |-> None, pc |-> "raised"]
    ELSE [heap |-> BuildTree(<<>>, d, None), root |-> 1, pc |-> "idle"]

\* DecisionTree(data): the tree is built by the constructor.
Init ==
    /\ data \in Datasets
    /\ \E made \in {Construct(data)} :
          heap = made.heap /\ root = made.root /\ pc = made.pc
    /\ nodes = <<>>
    /\ i = 0
    /\ pruned = FALSE
    /\ ret = NoRet

DoPredict ==
    /\ pc = "idle"
    /\ \E x \in Examples(NumAttrs(data)) :
          ret' = [op |-> "predict", x |-> x, val |-> Predict(heap, root, x)]
    /\ pc' = "returned"
    /\ UNCHANGED <<data, heap, root, nodes, i, pruned>>

DoScore ==
    /\ pc = "idle"
    /\ ret' = [op |-> "score", val |-> Score(heap, root, data)]
    /\ pc' = "returned"
    /\ UNCHANGED <<data, heap, root, nodes, i, pruned>>

DoHeight ==
    /\ pc = "idle"
    /\ ret' = [op |-> "height", val |-> Height(heap, root)]
    /\ pc' = "returned"
    /\ UNCHANGED <<data, heap, root, nodes, i, pruned>>

DoNodeCount ==
    /\ pc = "idle"
    /\ ret' = [op |-> "node_count", val |-> NodeCount(heap, root)]
    /\ pc' = "returned"
    /\ UNCHANGED <<data, heap, root, nodes, i, pruned>>

DoNodes ==
    /\ pc = "idle"
    /\ ret' = [op |-> "nodes", val |-> Nodes(heap, root)]
    /\ pc' = "returned"
    /\ UNCHANGED <<data, heap, root, nodes, i, pruned>>

\* DecisionTree._best_attribute(data) on the training set
DoBestAttribute ==
    /\ pc = "idle"
    /\ ret' = [op |-> "best_attribute", val |-> BestAttribute(data)]
    /\ pc' = "returned"
    /\ UNCHANGED <<data, heap, root, nodes, i, pruned>>

\* The caller takes the returned value.
Return ==
    /\ pc = "returned"
    /\ pc' = "idle"
    /\ ret' = NoRet
    /\ UNCHANGED <<data, heap, root, nodes, i, pruned>>

\* prune(), lines 205-206
PruneBegin ==
    /\ pc = "idle"
    /\ nodes' = Reverse(Nodes(heap, root))
    /\ i' = 1
    /\ pc' = "pruning"
    /\ UNCHANGED <<data, heap, root, pruned, ret>>

\* prune(), one iteration of the loop of lines 209-228
PruneVisit ==
    /\ pc = "pruning"
    /\ i <= Len(nodes)
    /\ heap' = Visit(heap, nodes[i])
    /\ i' = i + 1
    /\ UNCHANGED <<data, root, pc, nodes, pruned, ret>>

\* prune() returns
PruneEnd ==
    /\ pc = "pruning"
    /\ i > Len(nodes)
    /\ pc' = "idle"
    /\ nodes' = <<>>
    /\ i' = 0
    /\ pruned' = TRUE
    /\ UNCHANGED <<data, heap, root, ret>>

Next ==
    \/ DoPredict
    \/ DoScore
    \/ DoHeight
    \/ DoNodeCount
    \/ DoNodes
    \/ DoBestAttribute
    \/ Return
    \/ PruneBegin
    \/ PruneVisit
    \/ PruneEnd

Spec == Init /\ [][Next]_vars

(***************************************************************************)
(* prune() with the loop of lines 209-228 taking the collected nodes in    *)
(* an arbitrary order: each iteration visits any node of the list not yet  *)
(* visited.  The order of the code is one of these.                        *)
(***************************************************************************)
Remove(s, j) == SubSeq(s, 1, j - 1) \o SubSeq(s, j + 1, Len(s))

PruneVisitAnyOrder ==
    /\ pc = "pruning"
    /\ \E j \in DOMAIN nodes :
          /\ heap' = Visit(heap, nodes[j])
          /\ nodes' = Remove(nodes, j)
    /\ UNCHANGED <<data, root, pc, i, pruned, ret>>

NextAnyOrder ==
    \/ PruneBegin
    \/ PruneVisitAnyOrder
    \/ PruneEnd

SpecAnyOrder == Init /\ [][NextAnyOrder]_vars

(***************************************************************************)
(* Definitions used to state the properties.                               *)
(***************************************************************************)
\* The tree as the constructor built it from the training set.
Built == BuildTree(<<>>, data, None)

NodeIds(h) == 1..Len(h)

Internal(h, n) == h[n].children # <<>>

\* n hangs under its stored parent, and so on up to the root.
RECURSIVE IsReachable(_, _, _)
IsReachable(h, r, n) ==
    \/ n = r
    \/ /\ h[n].parent # None
       /\ n \in Range(ChildNodes(h[h[n].parent].children))
       /\ IsReachable(h, r, h[n].parent)

Reachable(h, r) == {n \in NodeIds(h) : IsReachable(h, r, n)}

Total(nsamples) == SumSeq(nsamples)

\* Rows of a node that its majority class misclassifies.
Errors(nsamples) == Total(nsamples) - Max(Range(nsamples))

\* The error rates as the documentation of prune() defines them, times the
\* node's total count (the common denominator of both rates).
DocNodeErrors(h, n) == Errors(h[n].nsamples)

DocChildrenErrors(h, n) ==
    LET cs == ChildNodes(h[n].children)
    IN  SumSeq([j \in DOMAIN cs |-> Errors(h[cs[j]].nsamples)])

AfterPrune == pc # "pruning" /\ pruned

\* The visit of the loop of prune() looks at an internal node.
VisitsInternal ==
    /\ pc = "pruning"
    /\ i <= Len(nodes)
    /\ Internal(heap, nodes[i])

FracGE(a, b) == a.num * b.den >= b.num * a.den

(***************************************************************************)
(* C1: the training accuracy score(data) after prune() is at least the    *)
(* training accuracy of the tree as built, on the same training rows.      *)
(***************************************************************************)
C1_PruneKeepsTrainingAccuracy ==
    AfterPrune => FracGE(Score(heap, root, data), Score(Built, 1, data))

(***************************************************************************)
(* C2: no step of prune() increases node_count(), adds a node to the set   *)
(* reachable from the root, or creates a node.                             *)
(***************************************************************************)
C2_PruneNeverGrows ==
    [][(heap' # heap \/ root' # root) =>
        /\ NodeCount(heap', root') <= NodeCount(heap, root)
        /\ Reachable(heap', root') \subseteq Reachable(heap, root)
        /\ Len(heap') = Len(heap)
        /\ root' = root]_vars

\* prune() has collapsed a node: the tree has fewer nodes than were created.
C2_Witness ==
    /\ AfterPrune
    /\ NodeCount(heap, root) < Len(heap)
    /\ Reachable(heap, root) # NodeIds(heap)

(***************************************************************************)
(* C3: an internal node visited by prune() is collapsed exactly when its   *)
(* children error rate exceeds its node error rate, both counted with      *)
(* total count minus largest class count.                                  *)
(***************************************************************************)
C3_CollapseIffDocRates ==
    [][VisitsInternal =>
        ((heap'[nodes[i]].children = <<>>)
            <=> (DocChildrenErrors(heap, nodes[i]) > DocNodeErrors(heap, nodes[i])))
      ]_vars

(***************************************************************************)
(* C4: an internal node whose children error rate equals its node error    *)
(* rate keeps its children through prune(); in particular the root of the  *)
(* tree built from 8 A / 2 B rows split into {A:5} and {A:3, B:2}.         *)
(***************************************************************************)
C4_EqualRatesNotCollapsed ==
    AfterPrune =>
        \A n \in NodeIds(Built) :
            (/\ Internal(Built, n)
             /\ DocChildrenErrors(Built, n) = DocNodeErrors(Built, n))
                => heap[n].children = Built[n].children

(***************************************************************************)
(* C5: a training set whose rows all carry one class c yields a single     *)
(* leaf with majority class c, height 0 and node count 1, whatever the     *)
(* attribute columns hold.                                                 *)
(***************************************************************************)
OneClass == data # <<>> /\ \A j \in DOMAIN data : data[j][1] = data[1][1]

C5_OneClassSingleLeaf ==
    OneClass =>
        /\ pc # "raised"
        /\ Len(heap) = 1
        /\ heap[root].children = <<>>
        /\ heap[root].parent = None
        /\ heap[root].cls = data[1][1]
        /\ Height(heap, root) = 0
        /\ NodeCount(heap, root) = 1
        /\ (ret.op = "height" => ret.val = 0)
        /\ (ret.op = "node_count" => ret.val = 1)

\* One class, rows that differ in both attributes, height() was asked.
C5_Witness ==
    /\ OneClass
    /\ data[1][1] = 2
    /\ NumAttrs(data) = 2
    /\ \E j, k \in DOMAIN data : data[j][2] # data[k][2] /\ data[j][3] # data[k][3]
    /\ ret.op = "height"

(***************************************************************************)
(* C6: _predict returns the majority class of the node where the walk from *)
(* the root along children[example[split attribute]] ends: a leaf, or the  *)
(* first internal node with no key equal to the example's value; it leaves *)
(* the tree as it is.                                                      *)
(***************************************************************************)
\* n lies on the walk of example x: every edge from the root down to n is
\* keyed by the value x has in the attribute its parent splits on.
RECURSIVE OnWalk(_, _, _, _)
OnWalk(h, r, x, n) ==
    \/ n = r
    \/ /\ h[n].parent # None
       /\ \E j \in DOMAIN h[h[n].parent].children :
             /\ h[h[n].parent].children[j].n = n
             /\ h[h[n].parent].children[j].k = x[h[h[n].parent].attr_idx + 1]
       /\ OnWalk(h, r, x, h[n].parent)

NoEdge(h, x, n) ==
    \A j \in DOMAIN h[n].children : h[n].children[j].k # x[h[n].attr_idx + 1]

WalkEnds(h, r, x) ==
    {n \in NodeIds(h) : OnWalk(h, r, x, n) /\ NoEdge(h, x, n)}

C6_PredictWalksToFallback ==
    [][(pc = "idle" /\ pc' = "returned" /\ ret'.op = "predict") =>
        /\ heap' = heap
        /\ root' = root
        /\ Cardinality(WalkEnds(heap, root, ret'.x)) = 1
        /\ \A n \in WalkEnds(heap, root, ret'.x) : ret'.val = heap[n].cls
      ]_vars

\* A prediction stopped at an internal node below the root whose majority
\* class differs from the root's, on a value no edge carries.
C6_Witness ==
    /\ ret.op = "predict"
    /\ \E n \in WalkEnds(heap, root, ret.x) :
          /\ n # root
          /\ Internal(heap, n)
          /\ heap[n].cls # heap[root].cls
          /\ ret.val = heap[n].cls

(***************************************************************************)
(* C7: nodes() yields every node reachable from the root exactly once, the *)
(* root first, breadth first (nodes in the order of their parents, the     *)
(* children of one node in the order of its mapping), and as many nodes as *)
(* node_count() counts.                                                    *)
(***************************************************************************)
Pos(L, n) == CHOOSE j \in DOMAIN L : L[j] = n

ChildIndex(h, n) ==
    CHOOSE j \in DOMAIN h[h[n].parent].children :
        h[h[n].parent].children[j].n = n

BreadthFirst(h, L) ==
    \A j, k \in 2..Len(L) :
        (j < k) <=>
            \/ Pos(L, h[L[j]].parent) < Pos(L, h[L[k]].parent)
            \/ /\ h[L[j]].parent = h[L[k]].parent
               /\ ChildIndex(h, L[j]) < ChildIndex(h, L[k])

C7_NodesBreadthFirstOnce ==
    ret.op = "nodes" =>
        /\ ret.val[1] = root
        /\ \A j, k \in DOMAIN ret.val : j # k => ret.val[j] # ret.val[k]
        /\ Range(ret.val) = Reachable(heap, root)
        /\ Len(ret.val) = NodeCount(heap, root)
        /\ BreadthFirst(heap, ret.val)

\* A listing in which a node created later is yielded before a node created
\* earlier: the children of the first child come after the second child.
C7_Witness ==
    /\ ret.op = "nodes"
    /\ Len(ret.val) >= 5
    /\ \E j \in 1..(Len(ret.val) - 1) : ret.val[j] > ret.val[j + 1]

(***************************************************************************)
(* C8: _best_attribute returns an attribute of greatest gain with that     *)
(* gain, the first in column order among those of greatest gain, as the    *)
(* dataset column index (attribute position + 1).                          *)
(***************************************************************************)
C8_BestAttributeFirstMax ==
    (ret.op = "best_attribute" /\ NumAttrs(data) > 0) =>
        /\ ret.val.attr \in 1..NumAttrs(data)
        /\ ret.val.gain = Gain(data, ret.val.attr - 1)
        /\ \A j \in 0..(NumAttrs(data) - 1) :
              ~GT(Gain(data, j), ret.val.gain)
        /\ \A j \in 0..(ret.val.attr - 2) :
              GT(ret.val.gain, Gain(data, j))

\* Two attributes tie on a positive greatest gain; the first is returned.
C8_Witness ==
    /\ ret.op = "best_attribute"
    /\ NumAttrs(data) = 2
    /\ Positive(Gain(data, 0))
    /\ ~GT(Gain(data, 0), Gain(data, 1))
    /\ ~GT(Gain(data, 1), Gain(data, 0))
    /\ ret.val.attr = 1

(***************************************************************************)
(* C9: the class counts of every reachable node sum to the number of       *)
(* training rows that reach it, the totals of an internal node's children  *)
(* sum to its own total, and no step changes the class counts of a node.   *)
(***************************************************************************)
RowsReaching(h, r, d, n) == {j \in DOMAIN d : OnWalk(h, r, d[j], n)}

C9_CountsMatchRows ==
    \A n \in Reachable(heap, root) :
        /\ Total(heap[n].nsamples) = Cardinality(RowsReaching(heap, root, data, n))
        /\ Internal(heap, n) =>
              LET cs == ChildNodes(heap[n].children)
              IN  SumSeq([j \in DOMAIN cs |-> Total(heap[cs[j]].nsamples)])
                      = Total(heap[n].nsamples)

C9_CountsUnchanged ==
    heap' # heap =>
        /\ Len(heap') = Len(heap)
        /\ \A n \in NodeIds(heap) : heap'[n].nsamples = heap[n].nsamples

C9_ClassCountsPreserved ==
    [](pc # "raised" => C9_CountsMatchRows) /\ [][C9_CountsUnchanged]_vars

\* prune() has collapsed a node below the root and kept the root's children.
C9_Witness ==
    /\ AfterPrune
    /\ Internal(heap, root)
    /\ NodeCount(heap, root) < Len(heap)

(***************************************************************************)
(* C10: from the rows [A,x1,y1], [A,x1,y2], [B,x2,y1] the builder splits   *)
(* the root on column 1 into two leaves keyed x1 and x2: height 1, node    *)
(* count 3.                                                                *)
(***************************************************************************)
AsBuilt == pc \in {"idle", "returned"} /\ ~pruned

C10_ScenarioSplitsOnAttr1 ==
    \A a, b \in Classes :
        (a # b /\ data = ScenarioSplit(a, b) /\ AsBuilt) =>
            /\ heap[root].attr_idx = 1
            /\ Len(heap[root].children) = 2
            /\ heap[root].children[1].k = 0
            /\ heap[root].children[2].k = 1
            /\ \A j \in 1..2 : ~Internal(heap, heap[root].children[j].n)
            /\ heap[heap[root].children[1].n].cls = a
            /\ heap[heap[root].children[2].n].cls = b
            /\ Height(heap, root) = 1
            /\ NodeCount(heap, root) = 3
            /\ (ret.op = "height" => ret.val = 1)
            /\ (ret.op = "node_count" => ret.val = 3)

\* node_count() was asked on the tree built from the scenario with B < A.
C10_Witness ==
    /\ data = ScenarioSplit(1, 0)
    /\ AsBuilt
    /\ ret.op = "node_count"

(***************************************************************************)
(* C11: building a tree from a training set without rows fails with an     *)
(* error: the constructor raises, nothing is returned or stored as the     *)
(* root then or later, and no node of any tree has empty class counts.     *)
(***************************************************************************)
C11_EmptyDataRaises ==
    /\ data = <<>> =>
          /\ pc = "raised"
          /\ root = None
          /\ heap = <<>>
          /\ ret = NoRet
    /\ \A n \in NodeIds(heap) : heap[n].nsamples # <<>>

C11_Witness ==
    /\ data = <<>>
    /\ Bincount(Column(data, 0)) = <<>>
    /\ Pure(Column(data, 0))
    /\ pc = "raised"


(***************************************************************************)
(* C12: at every internal node the keys of the children mapping are        *)
(* exactly the distinct values the split attribute takes among the         *)
(* training rows that reach the node; the child under key v is the tree    *)
(* built from exactly the rows carrying v, of which there is at least one; *)
(* and a child hangs under one key of one parent, its stored parent.       *)
(***************************************************************************)
KeysOf(children) == {children[j].k : j \in DOMAIN children}

\* The rows reaching n that carry v in the attribute n splits on, ascending.
RowsCarrying(h, r, d, n, v) ==
    SortedSeq({j \in RowsReaching(h, r, d, n) : d[j][h[n].attr_idx + 1] = v})

\* The nodes from c on are those _build_tree creates from the rows d when
\* the nodes before c exist.
BuiltFrom(h, c, d) ==
    LET b == BuildTree(SubSeq(h, 1, c - 1), d, h[c].parent)
    IN  /\ Len(b) <= Len(h)
        /\ \A n \in c..Len(b) : b[n] = h[n]

C12_ChildrenOf(h, r, d, n) ==
    LET children == h[n].children
    IN  /\ KeysOf(children)
              = {d[j][h[n].attr_idx + 1] : j \in RowsReaching(h, r, d, n)}
        /\ \A j \in DOMAIN children :
              LET c == children[j].n
                  mine == RowsCarrying(h, r, d, n, children[j].k)
              IN  /\ mine # <<>>
                  /\ h[c].nsamples = Bincount(Column(Take(d, mine), 0))
                  /\ (pc = "idle" /\ ~pruned) => BuiltFrom(h, c, Take(d, mine))
                  /\ h[c].parent = n
                  /\ \A p \in NodeIds(h) :
                        \A l \in DOMAIN h[p].children :
                            h[p].children[l].n = c => (p = n /\ l = j)

C12_ChildrenMatchPartition ==
    pc # "raised" =>
        \A n \in Reachable(heap, root) :
            Internal(heap, n) => C12_ChildrenOf(heap, root, data, n)

\* A freshly built tree in which a child of the root is split again.
C12_Witness ==
    /\ pc = "idle"
    /\ ~pruned
    /\ Internal(heap, root)
    /\ \E j \in DOMAIN heap[root].children :
          Internal(heap, heap[root].children[j].n)
    /\ Len(heap[root].children) = 2


(***************************************************************************)
(* C13: _build_tree returns a leaf whenever the best gain over all         *)
(* attributes of the rows it is given is not strictly positive (so always  *)
(* when there is no attribute column), and an internal node only when the  *)
(* rows carry at least two class labels and the best gain is strictly      *)
(* positive.                                                               *)
(***************************************************************************)
\* The rows _build_tree was given when it created n, in their order.
RowsOf(h, r, d, n) == Take(d, SortedSeq(RowsReaching(h, r, d, n)))

IsLeaf(h, n) == h[n].children = <<>> /\ h[n].attr_idx = None

C13_NodeKind(h, r, d, n) ==
    LET rows == RowsOf(h, r, d, n)
        best == BestAttribute(rows)
    IN  /\ ~Positive(best.gain) => IsLeaf(h, n)
        /\ NumAttrs(rows) = 0 => IsLeaf(h, n)
        /\ Internal(h, n) =>
              /\ Cardinality(Range(Column(rows, 0))) >= 2
              /\ Positive(best.gain)
              /\ h[n].attr_idx = best.attr

C13_LeafUnlessPositiveGain ==
    (pc = "idle" /\ ~pruned) =>
        \A n \in NodeIds(heap) : C13_NodeKind(heap, root, data, n)

\* A freshly built tree whose root is split and has a child that stays a
\* leaf although its rows carry two class labels: no attribute gains there.
C13_Witness ==
    /\ pc = "idle"
    /\ ~pruned
    /\ Internal(heap, root)
    /\ \E j \in DOMAIN heap[root].children :
          LET c == heap[root].children[j].n
          IN  /\ IsLeaf(heap, c)
              /\ Cardinality(Range(Column(RowsOf(heap, root, data, c), 0))) = 2
              /\ ~Positive(BestAttribute(RowsOf(heap, root, data, c)).gain)


(***************************************************************************)
(* C14: the result of prune() does not depend on the order in which the    *)
(* collected nodes are visited: visited in any order, the tree ends as the *)
(* one the code's reverse breadth-first order produces; no visit changes   *)
(* the collapse decision of a node that stays internal; and a second       *)
(* prune() changes nothing.                                                *)
(***************************************************************************)
RECURSIVE VisitAll(_, _)
VisitAll(h, order) ==
    IF order = <<>> THEN h
    ELSE VisitAll(Visit(h, Head(order)), Tail(order))

\* prune() as the code runs it, on the tree h with root r.
PrunedInCodeOrder(h, r) == VisitAll(h, Reverse(Nodes(h, r)))

C14_SameResult ==
    (pc = "idle" /\ pruned) => heap = PrunedInCodeOrder(Built, 1)

C14_DecisionFixed ==
    heap' # heap =>
        \A n \in NodeIds(heap) :
            (Internal(heap, n) /\ Internal(heap', n)) =>
                ShouldPrune(heap', n) = ShouldPrune(heap, n)

C14_SecondPruneNoChange == pruned => heap' = heap

C14_PruneOrderIrrelevant ==
    /\ []C14_SameResult
    /\ [][C14_DecisionFixed /\ C14_SecondPruneNoChange]_vars

\* The root has been visited and collapsed while a node below it, still
\* internal, waits for its visit: not the order of the code, which visits
\* the root last.
C14_Witness ==
    /\ pc = "pruning"
    /\ ~pruned
    /\ \A j \in DOMAIN nodes : nodes[j] # root
    /\ heap[root].children = <<>>
    /\ heap[root].attr_idx # None
    /\ \E j \in DOMAIN nodes : Internal(heap, nodes[j])


(***************************************************************************)
(* C15: _build_tree terminates on every training set with at least one     *)
(* row: an attribute has a strictly positive gain only if it takes at      *)
(* least two distinct values among the rows, so the attribute a node is    *)
(* split on does, every child is built from at least one row and strictly  *)
(* fewer rows than its parent, and the depth of the recursion is at most   *)
(* the number of rows.                                                     *)
(***************************************************************************)
NumRows(h, r, d, n) == Cardinality(RowsReaching(h, r, d, n))

C15_GainNeedsTwoValues(rows) ==
    \A a \in 1..NumAttrs(rows) :
        Positive(Gain(rows, a - 1)) =>
            Cardinality(Range(Column(rows, a))) >= 2

C15_ChildrenShrink(h, r, d, n) ==
    /\ Cardinality(Range(Column(RowsOf(h, r, d, n), h[n].attr_idx))) >= 2
    /\ Len(h[n].children) >= 2
    /\ \A j \in DOMAIN h[n].children :
          /\ NumRows(h, r, d, h[n].children[j].n) >= 1
          /\ NumRows(h, r, d, h[n].children[j].n) < NumRows(h, r, d, n)

C15_BuildTerminates ==
    (pc = "idle" /\ ~pruned) =>
        /\ \A n \in NodeIds(heap) :
              /\ C15_GainNeedsTwoValues(RowsOf(heap, root, data, n))
              /\ Internal(heap, n) => C15_ChildrenShrink(heap, root, data, n)
        /\ Height(heap, root) + 1 <= Len(data)
        /\ Len(heap) = NodeCount(heap, root)
        /\ Len(heap) <= 2 * Len(data) - 1

\* A freshly built tree as deep as its training set allows: every level of
\* the recursion took one row away.
C15_Witness ==
    /\ pc = "idle"
    /\ ~pruned
    /\ Height(heap, root) >= 2
    /\ Height(heap, root) + 1 = Len(data)

====
